---- MODULE Spec2Model ----
(***************************************************************************)
(* Log-drain ingestion endpoints of backend/http/logging.go:               *)
(*   HandleFirehoseLog  (POST /v1/logs/firehose, "Drain-A")                *)
(*   HandleJSONLog      (POST /v1/logs/json,     "Drain-B")                *)
(* Each handler is a state machine over its local variables; one action    *)
(* per stage of the handler.  The sink (hlog.SubmitHTTPLog) and the I/O of *)
(* the request body are the environment: their outcome is a choice.        *)
(***************************************************************************)
EXTENDS Integers, Sequences, FiniteSets, TLC

\* ------------------------------------------------------------------------
\* Bounds of the model
\* ------------------------------------------------------------------------
MaxRecords == 2
MaxEvents == 2
NumHandlers == 2

\* ------------------------------------------------------------------------
\* Program constants
\* ------------------------------------------------------------------------
LogDrainProjectHeader == "x-highlight-project"
LogDrainServiceHeader == "x-highlight-service"
FirehoseAttributesHeader == "X-Amz-Firehose-Common-Attributes"
ServiceNameKey == "service.name"
StatusOK == 200
StatusBadRequest == 400

\* ------------------------------------------------------------------------
\* Text rendering of numbers (strconv, time.Format)
\* ------------------------------------------------------------------------
Digit(d) ==
    CASE d = 0 -> "0" [] d = 1 -> "1" [] d = 2 -> "2" [] d = 3 -> "3"
      [] d = 4 -> "4" [] d = 5 -> "5" [] d = 6 -> "6" [] d = 7 -> "7"
      [] d = 8 -> "8" [] d = 9 -> "9"

RECURSIVE Decimal(_)
Decimal(n) == IF n < 10 THEN Digit(n) ELSE Decimal(n \div 10) \o Digit(n % 10)

RECURSIVE Pow10(_)
Pow10(k) == IF k = 0 THEN 1 ELSE 10 * Pow10(k - 1)

RECURSIVE NumDigits(_)
NumDigits(n) == IF n < 10 THEN 1 ELSE 1 + NumDigits(n \div 10)

RECURSIVE Padded(_, _)
Padded(n, width) ==
    IF width = 0 THEN ""
    ELSE Padded(n \div 10, width - 1) \o Digit(n % 10)

Abs(n) == IF n < 0 THEN -n ELSE n

\* strconv.FormatInt(n, 10)
FormatInt(n) == IF n < 0 THEN "-" \o Decimal(-n) ELSE Decimal(n)

\* A JSON number is the decimal mant * 10^exp.  Trailing zeros of the
\* mantissa are not significant digits.
RECURSIVE StripZeros(_, _)
StripZeros(m, e) ==
    IF m # 0 /\ m % 10 = 0 THEN StripZeros(m \div 10, e + 1)
    ELSE [mant |-> m, exp |-> e]

\* strconv.FormatFloat(x, 'E', -1, 64): d[.ddd]E(+|-)dd with the shortest
\* digit string that identifies x.
FormatFloat(mant, exp) ==
    IF mant = 0 THEN "0E+00"
    ELSE LET n == StripZeros(Abs(mant), exp)
             nd == NumDigits(n.mant)
             e10 == n.exp + nd - 1
             lead == n.mant \div Pow10(nd - 1)
             rest == n.mant % Pow10(nd - 1)
             sign == IF mant < 0 THEN "-" ELSE ""
             frac == IF nd = 1 THEN "" ELSE "." \o Padded(rest, nd - 1)
             esign == IF e10 < 0 THEN "-" ELSE "+"
             edigits == IF Abs(e10) < 10 THEN Padded(Abs(e10), 2)
                        ELSE Decimal(Abs(e10))
         IN sign \o Digit(lead) \o frac \o "E" \o esign \o edigits

\* time.UnixMilli(ms).UTC().Format(hlog.TimestampFormat) with the layout
\* "2006-01-02T15:04:05.000Z", for instants of 1970-01-01.
FormatTimestamp(ms) ==
    LET hh == ms \div 3600000
        mi == (ms % 3600000) \div 60000
        ss == (ms % 60000) \div 1000
        mmm == ms % 1000
    IN "1970-01-01T" \o Padded(hh, 2) \o ":" \o Padded(mi, 2) \o ":"
         \o Padded(ss, 2) \o "." \o Padded(mmm, 3) \o "Z"

\* ------------------------------------------------------------------------
\* JSON values
\* ------------------------------------------------------------------------
JAbsent == [t |-> "absent"]
JNull == [t |-> "null"]
JStr(s) == [t |-> "string", s |-> s]
JNum(m, e) == [t |-> "number", mant |-> m, exp |-> e]
JBool(b) == [t |-> "bool", b |-> b]
JArr(items) == [t |-> "array", items |-> items]
JObj(f) == [t |-> "object", fields |-> f]
NotJSON == [t |-> "invalid"]

Field(o, k) == IF k \in DOMAIN o.fields THEN o.fields[k] ELSE JAbsent

\* ------------------------------------------------------------------------
\* Byte strings.  A byte string is its text together with what a JSON
\* parser makes of that text; a gzip stream carries the text it inflates to.
\* ------------------------------------------------------------------------
GzipMagic == "<1f8b>"
Plain(text, json) == [form |-> "plain", text |-> text, json |-> json]
Gzip(b) == [form |-> "gzip", text |-> b.text, json |-> b.json]
GzipCorrupt == [form |-> "gzipcorrupt", text |-> "", json |-> NotJSON]

\* string(b)
TextOf(b) == IF b.form = "plain" THEN b.text ELSE GzipMagic \o b.text
\* what encoding/json sees in b
JSONOf(b) == IF b.form = "plain" THEN b.json ELSE NotJSON

\* gzip.NewReader: reads and checks the gzip header only
GzipNewReader(b) == [err |-> b.form \notin {"gzip", "gzipcorrupt"}]
\* io.ReadAll on a gzip reader: inflates and checks the stream
GzipReadAll(b) ==
    IF b.form = "gzip" THEN [err |-> FALSE, data |-> Plain(b.text, b.json)]
    ELSE [err |-> TRUE, data |-> Plain("", NotJSON)]

\* base64.StdEncoding.DecodeString
B64(b) == [valid |-> TRUE, bytes |-> b]
BadB64 == [valid |-> FALSE, bytes |-> Plain("", NotJSON)]
Base64Decode(d) ==
    IF d.valid THEN [err |-> FALSE, data |-> d.bytes]
    ELSE [err |-> TRUE, data |-> Plain("", NotJSON)]

\* ------------------------------------------------------------------------
\* encoding/json: decoding a JSON value into a Go value of a given type.
\* A value of the wrong JSON type leaves the field as it was and makes
\* json.Unmarshal return an UnmarshalTypeError after decoding the rest.
\* ------------------------------------------------------------------------
DecodeString(v) ==
    CASE v.t = "string" -> [err |-> FALSE, val |-> v.s]
      [] v.t \in {"absent", "null"} -> [err |-> FALSE, val |-> ""]
      [] OTHER -> [err |-> TRUE, val |-> ""]

DecodeInt64(v) ==
    CASE v.t = "number" /\ v.exp >= 0 ->
             [err |-> FALSE, val |-> v.mant * Pow10(v.exp)]
      [] v.t \in {"absent", "null"} -> [err |-> FALSE, val |-> 0]
      [] OTHER -> [err |-> TRUE, val |-> 0]

\* []string
DecodeStringList(v) ==
    CASE v.t = "array" ->
             [err |-> \E n \in 1..Len(v.items) : DecodeString(v.items[n]).err]
      [] v.t \in {"absent", "null"} -> [err |-> FALSE]
      [] OTHER -> [err |-> TRUE]

\* struct { Id string; Timestamp int64; Message string }
DecodeLogEvent(v) ==
    IF v.t = "object"
    THEN LET id == DecodeString(Field(v, "id"))
             ts == DecodeInt64(Field(v, "timestamp"))
             m == DecodeString(Field(v, "message"))
         IN [err |-> id.err \/ ts.err \/ m.err,
             val |-> [Id |-> id.val, Timestamp |-> ts.val, Message |-> m.val]]
    ELSE [err |-> v.t \notin {"absent", "null"},
          val |-> [Id |-> "", Timestamp |-> 0, Message |-> ""]]

DecodeLogEvents(v) ==
    CASE v.t = "array" ->
             [err |-> \E n \in 1..Len(v.items) : DecodeLogEvent(v.items[n]).err,
              val |-> [n \in 1..Len(v.items) |-> DecodeLogEvent(v.items[n]).val]]
      [] v.t \in {"absent", "null"} -> [err |-> FALSE, val |-> <<>>]
      [] OTHER -> [err |-> TRUE, val |-> <<>>]

ZeroCloudwatchPayload ==
    [MessageType |-> "", Owner |-> "", LogGroup |-> "", LogStream |-> "",
     LogEvents |-> <<>>]

\* json.Unmarshal(msg, &cloudwatchPayload)
UnmarshalCloudwatch(b) ==
    LET j == JSONOf(b) IN
    CASE j.t = "null" -> [err |-> FALSE, val |-> ZeroCloudwatchPayload]
      [] j.t = "object" ->
             LET mt == DecodeString(Field(j, "messageType"))
                 ow == DecodeString(Field(j, "owner"))
                 lgr == DecodeString(Field(j, "logGroup"))
                 ls == DecodeString(Field(j, "logStream"))
                 sf == DecodeStringList(Field(j, "subscriptionFilters"))
                 le == DecodeLogEvents(Field(j, "logEvents"))
             IN [err |-> mt.err \/ ow.err \/ lgr.err \/ ls.err \/ sf.err \/ le.err,
                 val |-> [MessageType |-> mt.val, Owner |-> ow.val,
                          LogGroup |-> lgr.val, LogStream |-> ls.val,
                          LogEvents |-> le.val]]
      [] OTHER -> [err |-> TRUE, val |-> ZeroCloudwatchPayload]

\* struct { Data string }
DecodeRecord(v) ==
    IF v.t = "object"
    THEN LET d == Field(v, "data") IN
         CASE d.t = "string" -> [err |-> FALSE, val |-> [Data |-> d.s]]
           [] d.t \in {"absent", "null"} ->
                  [err |-> FALSE, val |-> [Data |-> B64(Plain("", NotJSON))]]
           [] OTHER -> [err |-> TRUE, val |-> [Data |-> B64(Plain("", NotJSON))]]
    ELSE [err |-> v.t \notin {"absent", "null"},
          val |-> [Data |-> B64(Plain("", NotJSON))]]

DecodeRecords(v) ==
    CASE v.t = "array" ->
             [err |-> \E n \in 1..Len(v.items) : DecodeRecord(v.items[n]).err,
              val |-> [n \in 1..Len(v.items) |-> DecodeRecord(v.items[n]).val]]
      [] v.t \in {"absent", "null"} -> [err |-> FALSE, val |-> <<>>]
      [] OTHER -> [err |-> TRUE, val |-> <<>>]

ZeroEnvelope == [RequestId |-> "", Timestamp |-> 0, Records |-> <<>>]

\* json.Unmarshal(body, &lg) of HandleFirehoseLog
UnmarshalEnvelope(b) ==
    LET j == JSONOf(b) IN
    CASE j.t = "null" -> [err |-> FALSE, val |-> ZeroEnvelope]
      [] j.t = "object" ->
             LET id == DecodeString(Field(j, "requestId"))
                 ts == DecodeInt64(Field(j, "timestamp"))
                 rs == DecodeRecords(Field(j, "records"))
             IN [err |-> id.err \/ ts.err \/ rs.err,
                 val |-> [RequestId |-> id.val, Timestamp |-> ts.val,
                          Records |-> rs.val]]
      [] OTHER -> [err |-> TRUE, val |-> ZeroEnvelope]

\* json.Unmarshal(header, &attributesMap): the project id under
\* commonAttributes / x-highlight-project
UnmarshalAttributes(b) ==
    LET j == JSONOf(b) IN
    CASE j.t = "null" -> [err |-> FALSE, val |-> ""]
      [] j.t = "object" ->
             LET ca == Field(j, "commonAttributes") IN
             CASE ca.t = "object" ->
                      DecodeString(Field(ca, LogDrainProjectHeader))
               [] ca.t \in {"absent", "null"} -> [err |-> FALSE, val |-> ""]
               [] OTHER -> [err |-> TRUE, val |-> ""]
      [] OTHER -> [err |-> TRUE, val |-> ""]

\* ------------------------------------------------------------------------
\* hlog.Log and the attribute harvest of HandleJSONLog
\* ------------------------------------------------------------------------
NoAttributes == [k \in {} |-> ""]

\* map[string]string, decoded into a map that was made before: a JSON
\* object fills the map, a JSON null sets it to nil
DecodeStringMap(v) ==
    CASE v.t = "object" ->
             [err |-> \E k \in DOMAIN v.fields : DecodeString(v.fields[k]).err,
              val |-> [k \in {x \in DOMAIN v.fields :
                                 v.fields[x].t = "string"} |-> v.fields[k].s],
              isNil |-> FALSE]
      [] v.t = "null" -> [err |-> FALSE, val |-> NoAttributes, isNil |-> TRUE]
      [] v.t = "absent" -> [err |-> FALSE, val |-> NoAttributes, isNil |-> FALSE]
      [] OTHER -> [err |-> TRUE, val |-> NoAttributes, isNil |-> FALSE]

\* hlog.Log; AttributesNil tells the nil map from the empty one
ZeroLog ==
    [Message |-> "", Timestamp |-> "", Level |-> "", Attributes |-> NoAttributes,
     AttributesNil |-> TRUE]
\* line 169: lg.Attributes = make(map[string]string)
MadeLog == [ZeroLog EXCEPT !.AttributesNil = FALSE]

\* json.Unmarshal(body, &lg) of HandleJSONLog, lg.Attributes an empty map
UnmarshalLog(b) ==
    LET j == JSONOf(b) IN
    CASE j.t = "null" -> [err |-> FALSE, val |-> MadeLog]
      [] j.t = "object" ->
             LET m == DecodeString(Field(j, "message"))
                 ts == DecodeString(Field(j, "timestamp"))
                 lv == DecodeString(Field(j, "level"))
                 at == DecodeStringMap(Field(j, "attributes"))
             IN [err |-> m.err \/ ts.err \/ lv.err \/ at.err,
                 val |-> [Message |-> m.val, Timestamp |-> ts.val,
                          Level |-> lv.val, Attributes |-> at.val,
                          AttributesNil |-> at.isNil]]
      [] OTHER -> [err |-> TRUE, val |-> MadeLog]

\* json.Unmarshal(body, &lgAttrs), lgAttrs a map[string]interface{}
UnmarshalGeneric(b) ==
    LET j == JSONOf(b) IN
    CASE j.t = "null" -> [err |-> FALSE, val |-> NoAttributes]
      [] j.t = "object" -> [err |-> FALSE, val |-> j.fields]
      [] OTHER -> [err |-> TRUE, val |-> NoAttributes]

\* the dynamic type encoding/json gives a value decoded into interface{}
GoTypeOf(v) ==
    CASE v.t = "string" -> "string"
      [] v.t = "number" -> "float64"
      [] v.t = "bool" -> "bool"
      [] v.t = "null" -> "nil"
      [] v.t = "array" -> "[]interface{}"
      [] v.t = "object" -> "map[string]interface{}"

\* one arm of the type switch over a harvested value
CoerceAttribute(v) ==
    CASE GoTypeOf(v) = "string" -> v.s
      [] GoTypeOf(v) = "int64" -> FormatInt(v.mant * Pow10(v.exp))
      [] GoTypeOf(v) = "float64" -> FormatFloat(v.mant, v.exp)

\* faulty variant: the keys of the typed fields are left out of the harvest
HarvestedKeysExcludingTyped(generic) ==
    {k \in DOMAIN generic \ {"message", "timestamp", "level"} :
        GoTypeOf(generic[k]) \in {"string", "int64", "float64"}}

\* for k, v := range lgAttrs { switch typed := v.(type) ... }: the keys
\* whose value an arm of the switch writes to lg.Attributes
HarvestedKeys(generic) ==
    {k \in DOMAIN generic :
        GoTypeOf(generic[k]) \in {"string", "int64", "float64"}}

HarvestAttributes(attrs, generic) ==
    [k \in HarvestedKeys(generic) |-> CoerceAttribute(generic[k])] @@ attrs

\* ------------------------------------------------------------------------
\* Tenant Resolver: model2.FromVerboseID
\* ------------------------------------------------------------------------
VerboseIDs == ("1jdkoe52" :> 1) @@ ("7gy3x64d" :> 2)
FromVerboseID(s) ==
    IF s \in DOMAIN VerboseIDs THEN [err |-> FALSE, id |-> VerboseIDs[s]]
    ELSE [err |-> TRUE, id |-> 0]

\* ------------------------------------------------------------------------
\* Requests the model serves
\* ------------------------------------------------------------------------
Handlers == 1..NumHandlers

EmptyDoc == Plain("", NotJSON)
TextDoc == Plain("plain log line", NotJSON)
ScalarDoc == Plain("7", JNum(7, 0))
NullDoc == Plain("null", JNull)

LogEventJSON(n) ==
    JObj([id |-> JStr("ev" \o Decimal(n)),
          timestamp |-> JNum(1001 * n, 0),
          message |-> JStr("event " \o Decimal(n))])

RECURSIVE LogEventsText(_)
LogEventsText(n) ==
    IF n = 0 THEN ""
    ELSE LogEventsText(n - 1) \o (IF n > 1 THEN "," ELSE "")
           \o "{\"id\":\"ev" \o Decimal(n) \o "\",\"timestamp\":"
           \o Decimal(1001 * n) \o ",\"message\":\"event " \o Decimal(n) \o "\"}"

\* a CloudWatch subscription payload with n log events
CloudwatchDoc(n) ==
    Plain("{\"messageType\":\"DATA_MESSAGE\",\"owner\":\"acct\",\"logGroup\":\"grp\","
            \o "\"logStream\":\"strm\",\"logEvents\":[" \o LogEventsText(n) \o "]}",
          JObj([messageType |-> JStr("DATA_MESSAGE"), owner |-> JStr("acct"),
                logGroup |-> JStr("grp"), logStream |-> JStr("strm"),
                logEvents |-> JArr([n2 \in 1..n |-> LogEventJSON(n2)])]))

\* a JSON object one of whose fields has another type than the struct's
MistypedDoc ==
    Plain("{\"owner\":42,\"logEvents\":[" \o LogEventsText(1) \o "]}",
          JObj([owner |-> JNum(42, 0),
                logEvents |-> JArr(<<LogEventJSON(1)>>)]))

Payloads ==
    {EmptyDoc, TextDoc, ScalarDoc, NullDoc, MistypedDoc}
      \cup {CloudwatchDoc(n) : n \in 0..MaxEvents}

RecordBytes ==
    Payloads \cup {Gzip(TextDoc), Gzip(CloudwatchDoc(MaxEvents)), GzipCorrupt}

RecordData == {BadB64} \cup {B64(b) : b \in RecordBytes}

RecordLists == UNION {[1..n -> RecordData] : n \in 0..MaxRecords}

EnvelopeDoc(requestId, timestamp, records) ==
    Plain("{envelope}",
          JObj([requestId |-> requestId, timestamp |-> timestamp,
                records |-> JArr([n \in 1..Len(records) |->
                                     JObj([data |-> JStr(records[n])])])]))

EnvelopeDocs ==
    {EnvelopeDoc(JAbsent, JAbsent, rs) : rs \in RecordLists}
      \cup {EnvelopeDoc(JStr("req-1"), JNum(61001, 0), rs) : rs \in RecordLists}

AttributesDoc(id) ==
    Plain("{attributes}",
          JObj([commonAttributes |-> JObj((LogDrainProjectHeader :> id))]))

\* values of the X-Amz-Firehose-Common-Attributes header ("" when absent)
AttributesHeaders ==
    {EmptyDoc, AttributesDoc(JAbsent), AttributesDoc(JStr("not-an-id")),
     AttributesDoc(JStr("1jdkoe52"))}

\* what the request body holds and whether reading it fails
FirehoseBodies ==
    {[encoding |-> e, io |-> "fail", body |-> EmptyDoc] : e \in {"", "gzip"}}
      \cup {[encoding |-> e, io |-> "ok", body |-> GzipCorrupt] : e \in {"", "gzip"}}
      \cup {[encoding |-> "gzip", io |-> "ok", body |-> TextDoc],
            [encoding |-> "", io |-> "ok", body |-> TextDoc],
            [encoding |-> "gzip", io |-> "ok", body |-> Gzip(TextDoc)],
            [encoding |-> "", io |-> "ok", body |-> Gzip(EnvelopeDoc(JAbsent, JAbsent, <<>>))]}
      \cup {[encoding |-> "", io |-> "ok", body |-> d] : d \in EnvelopeDocs}
      \cup {[encoding |-> "gzip", io |-> "ok", body |-> Gzip(d)] : d \in EnvelopeDocs}

FirehoseRequests ==
    {[drain |-> "firehose", encoding |-> b.encoding, io |-> b.io, body |-> b.body,
      attributes |-> a, project |-> "", service |-> ""] :
        b \in FirehoseBodies, a \in AttributesHeaders}

\* bodies of POST /v1/logs/json: candidate values of each key
MessageValues == {JAbsent, JStr("hello"), JNum(5, 0)}
TimestampValues == {JAbsent, JStr(FormatTimestamp(61001)), JStr("yesterday")}
LevelValues == {JAbsent, JStr("warn")}
CountValues ==
    {JAbsent, JNum(3, 0), JNum(-12, 1), JNum(25, -1), JBool(TRUE), JNull,
     JArr(<<JNum(1, 0)>>)}
ServiceValues == {JAbsent, JStr("from-body")}
NestedValues == {JAbsent, JNull, JObj((ServiceNameKey :> JStr("nested")))}

ObjectOf(cand) ==
    JObj([k \in {x \in DOMAIN cand : cand[x] # JAbsent} |-> cand[k]])

LogDocs ==
    {Plain("{log}",
           ObjectOf(("message" :> m) @@ ("timestamp" :> ts) @@ ("level" :> lv)
                      @@ ("count" :> c) @@ (ServiceNameKey :> sv)
                      @@ ("attributes" :> at))) :
        m \in MessageValues, ts \in TimestampValues, lv \in LevelValues,
        c \in CountValues, sv \in ServiceValues, at \in NestedValues}

JSONBodies ==
    {[io |-> "fail", body |-> EmptyDoc]}
      \cup {[io |-> "ok", body |-> d] :
               d \in {TextDoc, NullDoc, Plain("[1]", JArr(<<JNum(1, 0)>>))} \cup LogDocs}

JSONRequests ==
    {[drain |-> "json", encoding |-> "", io |-> b.io, body |-> b.body,
      attributes |-> EmptyDoc, project |-> p, service |-> sv] :
        b \in JSONBodies, p \in {"", "not-an-id", "1jdkoe52"},
        sv \in {"", "checkout"}}

Requests == FirehoseRequests \cup JSONRequests
NoRequest ==
    [drain |-> "none", encoding |-> "", io |-> "ok", body |-> EmptyDoc,
     attributes |-> EmptyDoc, project |-> "", service |-> ""]

\* uuid.New().String()
GeneratedIds == {"uuid-1", "uuid-2"}

\* ------------------------------------------------------------------------
\* State: the local variables of the handler execution each handler runs
\* ------------------------------------------------------------------------
VARIABLES
    pc,                 \* where the handler is
    req,                \* the request being served
    body,               \* body: the bytes read from the request
    lg,                 \* HandleFirehoseLog lg: the decoded batch envelope
    projectID,          \* projectID
    idx,                \* position of the range loop over lg.Records
    msg,                \* msg: the working payload of the current record
    cloudwatchPayload,  \* cloudwatchPayload of the current record
    ev,                 \* position of the range loop over LogEvents
    jlg,                \* HandleJSONLog lg: the hlog.Log being built
    resp,               \* what was written to the http.ResponseWriter
    submitted,          \* the hlog.SubmitHTTPLog calls of this request
    diag                \* the messages logged with log.Error

vars ==
    <<pc, req, body, lg, projectID, idx, msg, cloudwatchPayload, ev, jlg,
      resp, submitted, diag>>

Init ==
    /\ pc = [h \in Handlers |-> "idle"]
    /\ req = [h \in Handlers |-> NoRequest]
    /\ body = [h \in Handlers |-> EmptyDoc]
    /\ lg = [h \in Handlers |-> ZeroEnvelope]
    /\ projectID = [h \in Handlers |-> 0]
    /\ idx = [h \in Handlers |-> 0]
    /\ msg = [h \in Handlers |-> EmptyDoc]
    /\ cloudwatchPayload = [h \in Handlers |-> ZeroCloudwatchPayload]
    /\ ev = [h \in Handlers |-> 0]
    /\ jlg = [h \in Handlers |-> ZeroLog]
    /\ resp = [h \in Handlers |-> <<>>]
    /\ submitted = [h \in Handlers |-> <<>>]
    /\ diag = [h \in Handlers |-> <<>>]

\* the router hands one of the requests rs to a handler
Accept(self, rs) ==
    /\ pc[self] = "idle"
    /\ \E r \in rs :
          /\ req' = [req EXCEPT ![self] = r]
          /\ pc' = [pc EXCEPT ![self] =
                       IF r.drain = "firehose" THEN "fh_read" ELSE "js_read"]
    /\ UNCHANGED <<body, lg, projectID, idx, msg, cloudwatchPayload, ev, jlg,
                   resp, submitted, diag>>

\* the handler function returns or unwinds: its locals are gone
Return(self) ==
    /\ pc[self] \in {"done", "panicked"}
    /\ pc' = [pc EXCEPT ![self] = "idle"]
    /\ req' = [req EXCEPT ![self] = NoRequest]
    /\ body' = [body EXCEPT ![self] = EmptyDoc]
    /\ lg' = [lg EXCEPT ![self] = ZeroEnvelope]
    /\ projectID' = [projectID EXCEPT ![self] = 0]
    /\ idx' = [idx EXCEPT ![self] = 0]
    /\ msg' = [msg EXCEPT ![self] = EmptyDoc]
    /\ cloudwatchPayload' = [cloudwatchPayload EXCEPT ![self] = ZeroCloudwatchPayload]
    /\ ev' = [ev EXCEPT ![self] = 0]
    /\ jlg' = [jlg EXCEPT ![self] = ZeroLog]
    /\ resp' = [resp EXCEPT ![self] = <<>>]
    /\ submitted' = [submitted EXCEPT ![self] = <<>>]
    /\ diag' = [diag EXCEPT ![self] = <<>>]

\* faulty variant: the error is written with status 200
RejectWithOK(self, cause, message) ==
    /\ diag' = [diag EXCEPT ![self] = Append(@, message)]
    /\ resp' = [resp EXCEPT ![self] =
                   Append(@, [status |-> StatusOK, error |-> cause,
                              requestId |-> ""])]
    /\ pc' = [pc EXCEPT ![self] = "done"]

\* log.WithError(err).Error(message); http.Error(w, err.Error(), 400); return
Reject(self, cause, message) ==
    /\ diag' = [diag EXCEPT ![self] = Append(@, message)]
    /\ resp' = [resp EXCEPT ![self] =
                   Append(@, [status |-> StatusBadRequest, error |-> cause,
                              requestId |-> ""])]
    /\ pc' = [pc EXCEPT ![self] = "done"]

\* faulty variant: the project id is kept in one place for all requests
CallSharedTenant(self, hl, ok) ==
    [project |-> projectID[CHOOSE h \in Handlers : \A o \in Handlers : h <= o],
     log |-> hl, ok |-> ok, record |-> idx[self], event |-> ev[self]]

\* one hlog.SubmitHTTPLog(ctx, projectID, hl) call and what it returned
Call(self, hl, ok) ==
    [project |-> projectID[self], log |-> hl, ok |-> ok,
     record |-> idx[self], event |-> ev[self]]

\* ------------------------------------------------------------------------
\* HandleFirehoseLog
\* ------------------------------------------------------------------------
\* faulty variant: a body that is no gzip stream is read as it is, the way
\* the records of the batch are
ReadFirehoseBodyLenient(r) ==
    IF r.io = "fail"
    THEN [err |-> "io", at |-> "invalid http firehose body", data |-> EmptyDoc]
    ELSE IF r.encoding = "gzip" /\ ~GzipReadAll(r.body).err
    THEN [err |-> "", at |-> "", data |-> GzipReadAll(r.body).data]
    ELSE [err |-> "", at |-> "", data |-> r.body]

\* lines 27-42: the bytes of the body, through gzip when content-encoding
\* says so
ReadFirehoseBody(r) ==
    IF r.encoding = "gzip"
    THEN IF r.io = "fail"
         THEN [err |-> "io", at |-> "invalid http firehose gzip", data |-> EmptyDoc]
         ELSE IF GzipNewReader(r.body).err
         THEN [err |-> "gzip", at |-> "invalid http firehose gzip", data |-> EmptyDoc]
         ELSE IF GzipReadAll(r.body).err
         THEN [err |-> "gzip", at |-> "invalid http firehose body", data |-> EmptyDoc]
         ELSE [err |-> "", at |-> "", data |-> GzipReadAll(r.body).data]
    ELSE IF r.io = "fail"
         THEN [err |-> "io", at |-> "invalid http firehose body", data |-> EmptyDoc]
         ELSE [err |-> "", at |-> "", data |-> r.body]

FH_ReadBody(self) ==
    /\ pc[self] = "fh_read"
    /\ LET rd == ReadFirehoseBody(req[self]) IN
       IF rd.err # ""
       THEN /\ Reject(self, rd.err, rd.at)
            /\ UNCHANGED body
       ELSE /\ body' = [body EXCEPT ![self] = rd.data]
            /\ pc' = [pc EXCEPT ![self] = "fh_parse"]
            /\ UNCHANGED <<resp, diag>>
    /\ UNCHANGED <<req, lg, projectID, idx, msg, cloudwatchPayload, ev, jlg,
                   submitted>>

\* faulty variant: no id is generated for an envelope without one
EnsureRequestIdKeep(id) == {id}

\* lines 57-59: the ids lg.RequestId may hold after the check
EnsureRequestId(id) == IF id = "" THEN GeneratedIds ELSE {id}

\* lines 44-59
FH_ParseEnvelope(self) ==
    /\ pc[self] = "fh_parse"
    /\ LET u == UnmarshalEnvelope(body[self]) IN
       IF u.err
       THEN /\ Reject(self, "json", "invalid http firehose json")
            /\ UNCHANGED lg
       ELSE /\ \E id \in EnsureRequestId(u.val.RequestId) :
                   lg' = [lg EXCEPT ![self] = [u.val EXCEPT !.RequestId = id]]
            /\ pc' = [pc EXCEPT ![self] = "fh_tenant"]
            /\ UNCHANGED <<resp, diag>>
    /\ UNCHANGED <<req, body, projectID, idx, msg, cloudwatchPayload, ev, jlg,
                   submitted>>

\* lines 61-76: the project id of the common-attributes header
ResolveFirehoseTenant(r) ==
    LET a == UnmarshalAttributes(r.attributes) IN
    IF a.err
    THEN [err |-> "json", at |-> "invalid http firehose attriutes", id |-> 0]
    ELSE IF FromVerboseID(a.val).err
    THEN [err |-> "hashids",
          at |-> "invalid highlight project id from http firehose request",
          id |-> 0]
    ELSE [err |-> "", at |-> "", id |-> FromVerboseID(a.val).id]

FH_ResolveTenant(self) ==
    /\ pc[self] = "fh_tenant"
    /\ LET t == ResolveFirehoseTenant(req[self]) IN
       IF t.err # ""
       THEN /\ Reject(self, t.err, t.at)
            /\ UNCHANGED <<projectID, idx>>
       ELSE /\ projectID' = [projectID EXCEPT ![self] = t.id]
            /\ idx' = [idx EXCEPT ![self] = 1]
            /\ pc' = [pc EXCEPT ![self] = "fh_loop"]
            /\ UNCHANGED <<resp, diag>>
    /\ UNCHANGED <<req, body, lg, msg, cloudwatchPayload, ev, jlg, submitted>>

\* lines 79-98: base64, then gzip when the bytes are a gzip stream
WorkingPayload(data) ==
    LET d == Base64Decode(data) IN
    IF d.err
    THEN [err |-> "base64", at |-> "invalid base64 firehose record", msg |-> EmptyDoc]
    ELSE IF ~GzipNewReader(d.data).err
    THEN IF GzipReadAll(d.data).err
         THEN [err |-> "gzip",
               at |-> "invalid http firehose record data reading gzip",
               msg |-> EmptyDoc]
         ELSE [err |-> "", at |-> "", msg |-> GzipReadAll(d.data).data]
    ELSE [err |-> "", at |-> "", msg |-> d.data]

\* faulty variant: the error of the sniff is dropped, nothing is sent raw
IsRawMessageNever(m) == FALSE

\* line 114: is the working payload sent as a raw message
IsRawMessage(m) == UnmarshalCloudwatch(m).err

\* lines 78-114: one record of the batch is decoded and sniffed
FH_Record(self) ==
    /\ pc[self] = "fh_loop"
    /\ idx[self] <= Len(lg[self].Records)
    /\ LET w == WorkingPayload(lg[self].Records[idx[self]].Data) IN
       IF w.err # ""
       THEN /\ Reject(self, w.err, w.at)
            /\ UNCHANGED <<msg, cloudwatchPayload, ev>>
       ELSE /\ msg' = [msg EXCEPT ![self] = w.msg]
            /\ cloudwatchPayload' =
                   [cloudwatchPayload EXCEPT ![self] = UnmarshalCloudwatch(w.msg).val]
            /\ ev' = [ev EXCEPT ![self] = IF IsRawMessage(w.msg) THEN 0 ELSE 1]
            /\ pc' = [pc EXCEPT ![self] =
                         IF IsRawMessage(w.msg) THEN "fh_raw" ELSE "fh_events"]
            /\ UNCHANGED <<resp, diag>>
    /\ UNCHANGED <<req, body, lg, projectID, idx, jlg, submitted>>

\* lines 115-119
RawLog(m, envelope) ==
    [Message |-> TextOf(m),
     Timestamp |-> FormatTimestamp(envelope.Timestamp),
     Level |-> "info",
     Attributes |-> NoAttributes,
     AttributesNil |-> TRUE]

\* faulty variant: the service_name tag is left out
EventLogUntagged(payload, event) ==
    [Message |-> event.Message,
     Timestamp |-> FormatTimestamp(event.Timestamp),
     Level |-> "info",
     Attributes |-> [message_type |-> payload.MessageType,
                     owner |-> payload.Owner,
                     log_group |-> payload.LogGroup,
                     log_stream |-> payload.LogStream],
     AttributesNil |-> FALSE]

\* lines 127-138
EventLog(payload, event) ==
    [Message |-> event.Message,
     Timestamp |-> FormatTimestamp(event.Timestamp),
     Level |-> "info",
     Attributes |-> [service_name |-> "firehose",
                     message_type |-> payload.MessageType,
                     owner |-> payload.Owner,
                     log_group |-> payload.LogGroup,
                     log_stream |-> payload.LogStream],
     AttributesNil |-> FALSE]

\* lines 115-124: the raw message is submitted
FH_SubmitRaw(self) ==
    /\ pc[self] = "fh_raw"
    /\ \E ok \in BOOLEAN :
          /\ submitted' = [submitted EXCEPT ![self] =
                              Append(@, Call(self, RawLog(msg[self], lg[self]), ok))]
          /\ IF ok
             THEN /\ idx' = [idx EXCEPT ![self] = @ + 1]
                  /\ pc' = [pc EXCEPT ![self] = "fh_loop"]
                  /\ UNCHANGED <<resp, diag>>
             ELSE /\ Reject(self, "sink", "failed to submit log")
                  /\ UNCHANGED idx
    /\ UNCHANGED <<req, body, lg, projectID, msg, cloudwatchPayload, ev, jlg>>

\* faulty variant: the loop steps over every other log event
NextEventSkipping(e) == e + 2

\* line 126: the range loop moves to the next log event
NextEvent(e) == e + 1

\* faulty variant: a failed submit is logged and the loop goes on
FH_SubmitEventContinuing(self) ==
    /\ pc[self] = "fh_events"
    /\ ev[self] <= Len(cloudwatchPayload[self].LogEvents)
    /\ \E ok \in BOOLEAN :
          /\ submitted' = [submitted EXCEPT ![self] =
                 Append(@, Call(self,
                                EventLog(cloudwatchPayload[self],
                                         cloudwatchPayload[self].LogEvents[ev[self]]),
                                ok))]
          /\ ev' = [ev EXCEPT ![self] = NextEvent(@)]
          /\ diag' = [diag EXCEPT ![self] =
                         IF ok THEN @ ELSE Append(@, "failed to submit log")]
          /\ UNCHANGED <<pc, resp>>
    /\ UNCHANGED <<req, body, lg, projectID, idx, msg, cloudwatchPayload, jlg>>

\* lines 126-144: one log event is submitted
FH_SubmitEvent(self) ==
    /\ pc[self] = "fh_events"
    /\ ev[self] <= Len(cloudwatchPayload[self].LogEvents)
    /\ \E ok \in BOOLEAN :
          /\ submitted' = [submitted EXCEPT ![self] =
                 Append(@, Call(self,
                                EventLog(cloudwatchPayload[self],
                                         cloudwatchPayload[self].LogEvents[ev[self]]),
                                ok))]
          /\ IF ok
             THEN /\ ev' = [ev EXCEPT ![self] = NextEvent(@)]
                  /\ UNCHANGED <<pc, resp, diag>>
             ELSE /\ Reject(self, "sink", "failed to submit log")
                  /\ UNCHANGED ev
    /\ UNCHANGED <<req, body, lg, projectID, idx, msg, cloudwatchPayload, jlg>>

\* faulty variant: a record without log events is refused
FH_NextRecordRefusingEmpty(self) ==
    /\ pc[self] = "fh_events"
    /\ ev[self] > Len(cloudwatchPayload[self].LogEvents)
    /\ IF Len(cloudwatchPayload[self].LogEvents) = 0
       THEN /\ Reject(self, "json", "invalid http firehose record")
            /\ UNCHANGED <<idx, ev>>
       ELSE /\ idx' = [idx EXCEPT ![self] = @ + 1]
            /\ ev' = [ev EXCEPT ![self] = 0]
            /\ pc' = [pc EXCEPT ![self] = "fh_loop"]
            /\ UNCHANGED <<resp, diag>>
    /\ UNCHANGED <<req, body, lg, projectID, msg, cloudwatchPayload, jlg, submitted>>

\* lines 126, 145-147: the events are exhausted, on to the next record
FH_NextRecord(self) ==
    /\ pc[self] = "fh_events"
    /\ ev[self] > Len(cloudwatchPayload[self].LogEvents)
    /\ idx' = [idx EXCEPT ![self] = @ + 1]
    /\ ev' = [ev EXCEPT ![self] = 0]
    /\ pc' = [pc EXCEPT ![self] = "fh_loop"]
    /\ UNCHANGED <<req, body, lg, projectID, msg, cloudwatchPayload, jlg, resp,
                   submitted, diag>>

\* lines 149-157: the acknowledgement
FirehoseResponse(envelope) ==
    [status |-> StatusOK, error |-> "", requestId |-> envelope.RequestId]

FH_Respond(self) ==
    /\ pc[self] = "fh_loop"
    /\ idx[self] > Len(lg[self].Records)
    /\ resp' = [resp EXCEPT ![self] = Append(@, FirehoseResponse(lg[self]))]
    /\ pc' = [pc EXCEPT ![self] = "done"]
    /\ UNCHANGED <<req, body, lg, projectID, idx, msg, cloudwatchPayload, ev, jlg,
                   submitted, diag>>

\* ------------------------------------------------------------------------
\* HandleJSONLog
\* ------------------------------------------------------------------------
\* lines 161-166
JS_ReadBody(self) ==
    /\ pc[self] = "js_read"
    /\ IF req[self].io = "fail"
       THEN /\ Reject(self, "io", "invalid http logs body")
            /\ UNCHANGED body
       ELSE /\ body' = [body EXCEPT ![self] = req[self].body]
            /\ pc' = [pc EXCEPT ![self] = "js_parse"]
            /\ UNCHANGED <<resp, diag>>
    /\ UNCHANGED <<req, lg, projectID, idx, msg, cloudwatchPayload, ev, jlg,
                   submitted>>

\* lines 168-191: the typed parse, the generic parse and the harvest
\* panic: the harvest writes to lg.Attributes when the typed parse has left
\* it nil ("assignment to entry in nil map")
ParseLog(b) ==
    IF UnmarshalLog(b).err \/ UnmarshalGeneric(b).err
    THEN [err |-> "json", at |-> "invalid http logs json", log |-> MadeLog,
          panic |-> FALSE]
    ELSE [err |-> "", at |-> "",
          log |-> [UnmarshalLog(b).val EXCEPT
                      !.Attributes = HarvestAttributes(@, UnmarshalGeneric(b).val)],
          panic |-> /\ UnmarshalLog(b).val.AttributesNil
                    /\ HarvestedKeys(UnmarshalGeneric(b).val) # {}]

JS_Parse(self) ==
    /\ pc[self] = "js_parse"
    /\ LET p == ParseLog(body[self]) IN
       IF p.err # ""
       THEN /\ Reject(self, p.err, p.at)
            /\ UNCHANGED jlg
       ELSE IF p.panic
       THEN /\ pc' = [pc EXCEPT ![self] = "panicked"]
            /\ UNCHANGED <<jlg, resp, diag>>
       ELSE /\ jlg' = [jlg EXCEPT ![self] = p.log]
            /\ pc' = [pc EXCEPT ![self] = "js_tenant"]
            /\ UNCHANGED <<resp, diag>>
    /\ UNCHANGED <<req, body, lg, projectID, idx, msg, cloudwatchPayload, ev,
                   submitted>>

\* faulty variant: the error of FromVerboseID is not checked
ResolveJSONTenantUnchecked(r) ==
    [err |-> "", at |-> "", id |-> FromVerboseID(r.project).id]

\* lines 193-206: the project id of the x-highlight-project header
ResolveJSONTenant(r) ==
    IF FromVerboseID(r.project).err
    THEN [err |-> "hashids",
          at |-> "failed to parse highlight project id from http logs request",
          id |-> 0]
    ELSE [err |-> "", at |-> "", id |-> FromVerboseID(r.project).id]

JS_ResolveTenant(self) ==
    /\ pc[self] = "js_tenant"
    /\ LET t == ResolveJSONTenant(req[self]) IN
       IF t.err # ""
       THEN /\ Reject(self, t.err, t.at)
            /\ UNCHANGED projectID
       ELSE /\ projectID' = [projectID EXCEPT ![self] = t.id]
            /\ pc' = [pc EXCEPT ![self] = "js_submit"]
            /\ UNCHANGED <<resp, diag>>
    /\ UNCHANGED <<req, body, lg, idx, msg, cloudwatchPayload, ev, jlg, submitted>>

\* faulty variant: a service name the body supplied is kept
WithServiceNameKeepingBody(l, service) ==
    [l EXCEPT !.Attributes = @ @@ (ServiceNameKey :> service)]

\* line 207
WithServiceName(l, service) ==
    [l EXCEPT !.Attributes = (ServiceNameKey :> service) @@ @]

\* the handler panics in the middle of the request: it writes no response
Panic(self) ==
    /\ pc' = [pc EXCEPT ![self] = "panicked"]
    /\ UNCHANGED <<jlg, resp, submitted, diag>>

\* line 214
JSONResponse == [status |-> StatusOK, error |-> "", requestId |-> ""]

\* faulty variant: what hlog.SubmitHTTPLog returns is not checked
JS_SubmitIgnoringError(self) ==
    /\ pc[self] = "js_submit"
    /\ ~jlg[self].AttributesNil
    /\ jlg' = [jlg EXCEPT ![self] = WithServiceName(@, req[self].service)]
    /\ \E ok \in BOOLEAN :
          submitted' = [submitted EXCEPT ![self] =
              Append(@, Call(self, WithServiceName(jlg[self], req[self].service), ok))]
    /\ resp' = [resp EXCEPT ![self] = Append(@, JSONResponse)]
    /\ pc' = [pc EXCEPT ![self] = "done"]
    /\ UNCHANGED <<req, body, lg, projectID, idx, msg, cloudwatchPayload, ev, diag>>

\* lines 207-215
JS_Submit(self) ==
    /\ pc[self] = "js_submit"
    /\ IF jlg[self].AttributesNil
       THEN Panic(self)
       ELSE /\ jlg' = [jlg EXCEPT ![self] = WithServiceName(@, req[self].service)]
            /\ \E ok \in BOOLEAN :
                  /\ submitted' = [submitted EXCEPT ![self] =
                         Append(@, Call(self, WithServiceName(jlg[self],
                                                              req[self].service), ok))]
                  /\ IF ok
                     THEN /\ resp' = [resp EXCEPT ![self] = Append(@, JSONResponse)]
                          /\ pc' = [pc EXCEPT ![self] = "done"]
                          /\ UNCHANGED diag
                     ELSE Reject(self, "sink", "failed to submit log")
    /\ UNCHANGED <<req, body, lg, projectID, idx, msg, cloudwatchPayload, ev>>

\* ------------------------------------------------------------------------
\* The server handling one request at a time
\* ------------------------------------------------------------------------
FirstHandler == CHOOSE h \in Handlers : \A o \in Handlers : h <= o

Step(self) ==
    \/ FH_ReadBody(self)
    \/ FH_ParseEnvelope(self)
    \/ FH_ResolveTenant(self)
    \/ FH_Record(self)
    \/ FH_SubmitRaw(self)
    \/ FH_SubmitEvent(self)
    \/ FH_NextRecord(self)
    \/ FH_Respond(self)
    \/ JS_ReadBody(self)
    \/ JS_Parse(self)
    \/ JS_ResolveTenant(self)
    \/ JS_Submit(self)
    \/ Return(self)

Next ==
    \/ Accept(FirstHandler, Requests)
    \/ Step(FirstHandler)

Spec == Init /\ [][Next]_vars

\* ------------------------------------------------------------------------
\* The server handling requests concurrently: net/http runs each handler
\* call on a goroutine of its own, and their steps interleave
\* ------------------------------------------------------------------------
ConcurrentRequests ==
    {[drain |-> "firehose", encoding |-> "", io |-> "ok",
      body |-> EnvelopeDoc(JStr("req-1"), JNum(61001, 0), rs),
      attributes |-> AttributesDoc(JStr(t)), project |-> "", service |-> ""] :
        rs \in {<<B64(TextDoc), B64(CloudwatchDoc(MaxEvents))>>,
                <<B64(Gzip(TextDoc)), BadB64>>},
        t \in {"1jdkoe52", "not-an-id"}}
      \cup
    {[drain |-> "json", encoding |-> "", io |-> "ok",
      body |-> Plain("{log}", ObjectOf(("message" :> JStr("hello"))
                                          @@ ("attributes" :> at))),
      attributes |-> EmptyDoc, project |-> p, service |-> "checkout"] :
        at \in {JAbsent, JNull}, p \in {"7gy3x64d", "not-an-id"}}

NextConcurrent ==
    \E self \in Handlers :
       \/ Accept(self, ConcurrentRequests)
       \/ Step(self)

SpecConcurrent == Init /\ [][NextConcurrent]_vars

\* ------------------------------------------------------------------------
\* Vocabulary of the properties
\* ------------------------------------------------------------------------
InFlight == {h \in Handlers : pc[h] # "idle"}
FirehoseHandlers == {h \in InFlight : req[h].drain = "firehose"}
JSONHandlers == {h \in InFlight : req[h].drain = "json"}

\* the error taxonomy: the kind of a failure, from what failed and where.
\* A common-attributes header that does not decode leaves the request
\* without a tenant id.
ErrorKind(cause, at) ==
    CASE cause = "io" -> "BodyReadError"
      [] cause = "gzip" -> "DecompressionError"
      [] cause = "base64" -> "InvalidEncoding"
      [] cause = "hashids" -> "InvalidTenantId"
      [] cause = "sink" -> "SinkSubmitError"
      [] cause = "json" ->
             IF at = "invalid http firehose attriutes" THEN "InvalidTenantId"
             ELSE "MalformedEnvelope"
      [] OTHER -> "none"

\* the tenant id a request carries, "" when it carries none
TenantOf(r) ==
    IF r.drain = "firehose" THEN UnmarshalAttributes(r.attributes).val
    ELSE r.project
TenantValid(r) ==
    /\ r.drain = "firehose" => ~UnmarshalAttributes(r.attributes).err
    /\ TenantOf(r) \in DOMAIN VerboseIDs

\* the bytes a request body stands for once any gzip layer is taken off
Inflated(b) == IF b.form = "gzip" THEN Plain(b.text, b.json) ELSE b

\* the body of the request can be read and is of its drain's JSON shape
BodyAccepted(r) ==
    /\ r.io = "ok"
    /\ IF r.drain = "firehose"
       THEN /\ r.encoding = "gzip" => r.body.form = "gzip"
            /\ r.encoding # "gzip" => r.body.form = "plain"
            /\ ~UnmarshalEnvelope(Inflated(r.body)).err
       ELSE /\ r.body.form = "plain"
            /\ ~UnmarshalLog(r.body).err

\* a record of a batch: its payload once base64 and gzip are taken off
Decodable(d) == d.valid /\ d.bytes.form # "gzipcorrupt"
PayloadOf(d) == Inflated(d.bytes)
\* the payload is a SubEnvelope: a JSON object of the SubEnvelope's types
IsSubEnvelope(d) ==
    /\ Decodable(d)
    /\ PayloadOf(d).json.t = "object"
    /\ ~UnmarshalCloudwatch(PayloadOf(d)).err
EventsOf(d) == UnmarshalCloudwatch(PayloadOf(d)).val.LogEvents

\* the sink calls a handler made for record i of its batch
CallsFor(h, i) == SelectSeq(submitted[h], LAMBDA c : c.record = i)

AllAccepted(h) == \A k \in 1..Len(submitted[h]) : submitted[h][k].ok

\* the handler is past record i of its batch
Processed(h, i) == idx[h] > i

\* position and message of the sink calls, in call order
CallOrder(h) ==
    [k \in 1..Len(submitted[h]) |->
        [record |-> submitted[h][k].record, event |-> submitted[h][k].event,
         message |-> submitted[h][k].log.Message]]

RECURSIVE EventOrder(_, _)
EventOrder(records, i) ==
    IF i > Len(records) THEN <<>>
    ELSE [j \in 1..Len(EventsOf(records[i].Data)) |->
             [record |-> i, event |-> j,
              message |-> EventsOf(records[i].Data)[j].Message]]
           \o EventOrder(records, i + 1)

RECURSIVE SumEvents(_, _)
SumEvents(records, i) ==
    IF i > Len(records) THEN 0
    ELSE Len(EventsOf(records[i].Data)) + SumEvents(records, i + 1)

\* ------------------------------------------------------------------------
\* C1: a firehose request with a valid tenant id, whose sink accepted every
\* submit and whose records all decode to a SubEnvelope with a non-empty
\* logEvents list, ends having made as many sink calls as the logEvents
\* lengths sum to, record by record in batch order and event by event in
\* logEvents order.
\* ------------------------------------------------------------------------
C1_Premise(h) ==
    /\ pc[h] = "done"
    /\ TenantValid(req[h])
    /\ AllAccepted(h)
    /\ \A i \in 1..Len(lg[h].Records) :
          /\ IsSubEnvelope(lg[h].Records[i].Data)
          /\ Len(EventsOf(lg[h].Records[i].Data)) > 0

C1_StructuredBatchFanOut ==
    \A h \in FirehoseHandlers :
       C1_Premise(h) =>
          /\ Len(submitted[h]) = SumEvents(lg[h].Records, 1)
          /\ CallOrder(h) = EventOrder(lg[h].Records, 1)

C1_Witness ==
    \E h \in FirehoseHandlers :
       /\ C1_Premise(h)
       /\ Len(lg[h].Records) = 2
       /\ Len(CallsFor(h, 1)) = 2
       /\ Len(CallsFor(h, 2)) = 1
       /\ resp[h][1].status = StatusOK

\* ------------------------------------------------------------------------
\* C2: for every record of a firehose batch whose decoded (and, if gzip,
\* decompressed) payload is not valid JSON, the handler submits exactly one
\* record when it processes it, and its message is the payload text: at most
\* one call is ever made for the record, each with that message, and there
\* is exactly one once the handler is past the record.
\* ------------------------------------------------------------------------
NotJSONPayload(d) == Decodable(d) /\ PayloadOf(d).json = NotJSON

C2_RawRecordSubmittedOnce ==
    \A h \in FirehoseHandlers :
       \A i \in 1..Len(lg[h].Records) :
          NotJSONPayload(lg[h].Records[i].Data) =>
             /\ Len(CallsFor(h, i)) <= 1
             /\ \A k \in 1..Len(CallsFor(h, i)) :
                   CallsFor(h, i)[k].log.Message = PayloadOf(lg[h].Records[i].Data).text
             /\ Processed(h, i) => Len(CallsFor(h, i)) = 1

C2_Witness ==
    \E h \in FirehoseHandlers :
       /\ pc[h] = "done"
       /\ resp[h][1].status = StatusOK
       /\ \E i \in 1..Len(lg[h].Records) :
             /\ lg[h].Records[i].Data = B64(Gzip(TextDoc))
             /\ Len(CallsFor(h, i)) = 1
             /\ CallsFor(h, i)[1].log.Message = "plain log line"

C3_WitnessFirehose ==
    \E h \in FirehoseHandlers :
       /\ pc[h] = "done"
       /\ req[h].attributes = AttributesDoc(JAbsent)
       /\ Len(lg[h].Records) > 0
       /\ resp[h][1].error = "hashids"
       /\ submitted[h] = <<>>

\* ------------------------------------------------------------------------
\* C4: every record handed to the sink, by either drain, has a non-empty
\* message and a valid timestamp.
\* ------------------------------------------------------------------------
\* the instants the requests of the model speak of
Instants == {0, 61001} \cup {1001 * n : n \in 1..(MaxEvents + 1)}
ValidTimestamp(s) == \E ms \in Instants : s = FormatTimestamp(ms)

C4_SubmittedRecordsWellFormed ==
    \A h \in InFlight :
       \A k \in 1..Len(submitted[h]) :
          /\ submitted[h][k].log.Message # ""
          /\ ValidTimestamp(submitted[h][k].log.Timestamp)

\* the part of C4 about the firehose drain's timestamps
C4_FirehoseTimestampsValid ==
    \A h \in FirehoseHandlers :
       \A k \in 1..Len(submitted[h]) :
          ValidTimestamp(submitted[h][k].log.Timestamp)

\* ------------------------------------------------------------------------
\* C5: a JSON-drain request with a valid tenant id whose body has a string
\* message, a string level and an integer-valued number field count yields
\* a submitted record with that message, that level and count among the
\* attributes as its base-10 text.
\* ------------------------------------------------------------------------
C5_Premise(r) ==
    /\ r.io = "ok"
    /\ r.body.json.t = "object"
    /\ Field(r.body.json, "message").t = "string"
    /\ Field(r.body.json, "level").t = "string"
    /\ Field(r.body.json, "count").t = "number"
    /\ Field(r.body.json, "count").exp >= 0

C5_IntegerFieldAsBase10 ==
    \A h \in JSONHandlers :
       \A k \in 1..Len(submitted[h]) :
          C5_Premise(req[h]) =>
             LET sent == submitted[h][k].log
                 n == Field(req[h].body.json, "count")
             IN /\ sent.Message = Field(req[h].body.json, "message").s
                /\ sent.Level = Field(req[h].body.json, "level").s
                /\ "count" \in DOMAIN sent.Attributes
                /\ sent.Attributes["count"] = FormatInt(n.mant * Pow10(n.exp))

\* ------------------------------------------------------------------------
\* C6: a firehose request with content-encoding gzip whose body is not
\* valid gzip fails with the decompression error and a 400 in the body-read
\* stage: the envelope is never parsed, the tenant never resolved, the sink
\* never called.
\* ------------------------------------------------------------------------
C6_Premise(r) ==
    /\ r.drain = "firehose"
    /\ r.encoding = "gzip"
    /\ r.io = "ok"
    /\ r.body.form # "gzip"

C6_BadGzipFailsBeforeParsing ==
    \A h \in InFlight :
       C6_Premise(req[h]) =>
          /\ pc[h] \in {"fh_read", "done"}
          /\ lg[h] = ZeroEnvelope
          /\ projectID[h] = 0
          /\ submitted[h] = <<>>
          /\ pc[h] = "done" =>
                /\ Len(resp[h]) = 1
                /\ resp[h][1].status = StatusBadRequest
                /\ ErrorKind(resp[h][1].error, diag[h][1]) = "DecompressionError"

C6_Witness ==
    \E h \in InFlight :
       /\ C6_Premise(req[h])
       /\ req[h].body = TextDoc
       /\ TenantValid(req[h])
       /\ pc[h] = "done"
       /\ diag[h] = <<"invalid http firehose gzip">>

\* ------------------------------------------------------------------------
\* C7: every success response of the firehose drain carries a non-empty
\* requestId: the envelope's own when the envelope supplied a non-empty
\* one, a generated identifier when it supplied none.
\* ------------------------------------------------------------------------
\* the requestId the body of a request supplies, "" when it supplies none
SuppliedRequestId(r) ==
    LET j == JSONOf(Inflated(r.body)) IN
    IF j.t = "object" /\ Field(j, "requestId").t = "string"
    THEN Field(j, "requestId").s
    ELSE ""

C7_RequestIdEchoedOrGenerated ==
    \A h \in FirehoseHandlers :
       \A k \in 1..Len(resp[h]) :
          resp[h][k].status = StatusOK =>
             /\ resp[h][k].requestId # ""
             /\ SuppliedRequestId(req[h]) # "" =>
                   resp[h][k].requestId = SuppliedRequestId(req[h])
             /\ SuppliedRequestId(req[h]) = "" =>
                   resp[h][k].requestId \in GeneratedIds

C7_Witness ==
    \E h \in FirehoseHandlers :
       /\ Len(resp[h]) = 1
       /\ resp[h][1].status = StatusOK
       /\ SuppliedRequestId(req[h]) = ""
       /\ resp[h][1].requestId = "uuid-2"

C7_WitnessEcho ==
    \E h \in FirehoseHandlers :
       /\ Len(resp[h]) = 1
       /\ resp[h][1].status = StatusOK
       /\ resp[h][1].requestId = "req-1"

\* ------------------------------------------------------------------------
\* C8: a firehose record that is valid gzip around a SubEnvelope with N
\* logEvents gives exactly N sink calls once the handler is past it (never
\* more), and every record built from a SubEnvelope carries the attribute
\* service_name = "firehose".
\* ------------------------------------------------------------------------
GzippedSubEnvelope(d) ==
    /\ d.valid
    /\ d.bytes.form = "gzip"
    /\ IsSubEnvelope(d)

C8_GzippedSubEnvelopeFanOut ==
    \A h \in FirehoseHandlers :
       /\ \A i \in 1..Len(lg[h].Records) :
             GzippedSubEnvelope(lg[h].Records[i].Data) =>
                /\ Len(CallsFor(h, i)) <= Len(EventsOf(lg[h].Records[i].Data))
                /\ Processed(h, i) =>
                      Len(CallsFor(h, i)) = Len(EventsOf(lg[h].Records[i].Data))
       /\ \A k \in 1..Len(submitted[h]) :
             submitted[h][k].event > 0 =>
                /\ "service_name" \in DOMAIN submitted[h][k].log.Attributes
                /\ submitted[h][k].log.Attributes["service_name"] = "firehose"

C8_Witness ==
    \E h \in FirehoseHandlers :
       /\ pc[h] = "done"
       /\ resp[h][1].status = StatusOK
       /\ Len(lg[h].Records) = 1
       /\ GzippedSubEnvelope(lg[h].Records[1].Data)
       /\ Len(EventsOf(lg[h].Records[1].Data)) = 2
       /\ Len(submitted[h]) = 2
       /\ \A k \in 1..2 : submitted[h][k].log.Attributes["service_name"] = "firehose"

\* ------------------------------------------------------------------------
\* C9: for both drains a request has no response while it is handled and
\* exactly one when the handler has ended: a 200 only if no stage failed
\* (body read, decompression, JSON parse, tenant resolution, base64 decode,
\* every sink submit), a 400 carrying the error text whenever one did.
\* ------------------------------------------------------------------------
Ended(h) == pc[h] \in {"done", "panicked"}

\* some stage other than a sink submit cannot succeed on this request
Defective(r, envelope) ==
    \/ r.io = "fail"
    \/ ~TenantValid(r)
    \/ /\ r.drain = "firehose"
       /\ \/ r.encoding = "gzip" /\ r.body.form # "gzip"
          \/ UnmarshalEnvelope(IF r.encoding = "gzip" THEN Inflated(r.body)
                               ELSE r.body).err
          \/ \E i \in 1..Len(envelope.Records) :
                ~Decodable(envelope.Records[i].Data)
    \/ /\ r.drain = "json"
       /\ UnmarshalLog(r.body).err \/ UnmarshalGeneric(r.body).err

StageFailed(h) == Defective(req[h], lg[h]) \/ ~AllAccepted(h)

C9_OneResponsePerRequest ==
    \A h \in InFlight :
       /\ ~Ended(h) => resp[h] = <<>>
       /\ Ended(h) =>
             /\ Len(resp[h]) = 1
             /\ resp[h][1].status \in {StatusOK, StatusBadRequest}
             /\ resp[h][1].status = StatusOK => ~StageFailed(h)
             /\ StageFailed(h) =>
                   /\ resp[h][1].status = StatusBadRequest
                   /\ resp[h][1].error # ""

C9_Witness ==
    \E h \in FirehoseHandlers :
       /\ pc[h] = "done"
       /\ Len(lg[h].Records) = 2
       /\ Decodable(lg[h].Records[1].Data)
       /\ ~lg[h].Records[2].Data.valid
       /\ Len(submitted[h]) > 0
       /\ AllAccepted(h)
       /\ resp[h] = <<[status |-> StatusBadRequest, error |-> "base64",
                       requestId |-> ""]>>

\* the part of C9 that holds of the requests whose handler returns
C9_OneResponsePerReturn ==
    \A h \in InFlight :
       /\ pc[h] # "done" => resp[h] = <<>>
       /\ pc[h] = "done" =>
             /\ Len(resp[h]) = 1
             /\ resp[h][1].status \in {StatusOK, StatusBadRequest}
             /\ resp[h][1].status = StatusOK => ~StageFailed(h)
             /\ StageFailed(h) =>
                   /\ resp[h][1].status = StatusBadRequest
                   /\ resp[h][1].error # ""

\* ------------------------------------------------------------------------
\* C10: a JSON-drain request answered 200 made exactly one sink call and
\* that call succeeded; one answered 400 made at most one sink call and
\* none succeeded.
\* ------------------------------------------------------------------------
C10_OneSubmitPerJSONRequest ==
    \A h \in JSONHandlers :
       /\ Len(submitted[h]) <= 1
       /\ \A k \in 1..Len(resp[h]) :
             /\ resp[h][k].status = StatusOK =>
                   /\ Len(submitted[h]) = 1
                   /\ submitted[h][1].ok
             /\ resp[h][k].status = StatusBadRequest =>
                   \A c \in 1..Len(submitted[h]) : ~submitted[h][c].ok

C10_Witness ==
    \E h \in JSONHandlers :
       /\ pc[h] = "done"
       /\ resp[h][1].status = StatusBadRequest
       /\ Len(submitted[h]) = 1
       /\ ~submitted[h][1].ok

C10_WitnessOK ==
    \E h \in JSONHandlers :
       /\ pc[h] = "done"
       /\ resp[h][1].status = StatusOK
       /\ Len(submitted[h]) = 1
       /\ submitted[h][1].ok

\* ------------------------------------------------------------------------
\* C11: at every point of a firehose request the sink calls made so far are
\* a prefix of the batch's output: record by record in batch order, the
\* logEvents of a record in their order when its payload decodes as a
\* SubEnvelope, its one raw record otherwise, also for batches that mix the
\* two.  No position of the batch is submitted twice, and a failed call is
\* the last call of its request.
\* ------------------------------------------------------------------------
\* what one record of a batch gives the sink
OutputOf(d, i) ==
    IF ~UnmarshalCloudwatch(PayloadOf(d)).err
    THEN [j \in 1..Len(EventsOf(d)) |->
             [record |-> i, event |-> j, message |-> EventsOf(d)[j].Message]]
    ELSE <<[record |-> i, event |-> 0, message |-> PayloadOf(d).text]>>

\* the output of the records from i on, up to the first that cannot be decoded
RECURSIVE BatchOutput(_, _)
BatchOutput(records, i) ==
    IF i > Len(records) \/ ~Decodable(records[i].Data) THEN <<>>
    ELSE OutputOf(records[i].Data, i) \o BatchOutput(records, i + 1)

IsPrefix(s, t) == Len(s) <= Len(t) /\ s = SubSeq(t, 1, Len(s))

C11_SubmitsArePrefixOfBatch ==
    \A h \in FirehoseHandlers :
       /\ IsPrefix(CallOrder(h), BatchOutput(lg[h].Records, 1))
       /\ \A k1, k2 \in 1..Len(submitted[h]) :
             k1 # k2 =>
                <<submitted[h][k1].record, submitted[h][k1].event>>
                   # <<submitted[h][k2].record, submitted[h][k2].event>>
       /\ \A k \in 1..(Len(submitted[h]) - 1) : submitted[h][k].ok

C11_Witness ==
    \E h \in FirehoseHandlers :
       /\ pc[h] = "done"
       /\ Len(lg[h].Records) = 2
       /\ NotJSONPayload(lg[h].Records[1].Data)
       /\ IsSubEnvelope(lg[h].Records[2].Data)
       /\ Len(EventsOf(lg[h].Records[2].Data)) = 2
       /\ Len(submitted[h]) = 3
       /\ ~submitted[h][3].ok
       /\ resp[h][1].error = "sink"

\* ------------------------------------------------------------------------
\* C12: a firehose request that ends with an error response has had none of
\* its records accepted by the sink.
\* ------------------------------------------------------------------------
C12_NoPartialSuccess ==
    \A h \in FirehoseHandlers :
       (pc[h] = "done" /\ resp[h][1].status = StatusBadRequest) =>
          \A k \in 1..Len(submitted[h]) : ~submitted[h][k].ok

\* ------------------------------------------------------------------------
\* C13: the gzip attempt on a record never fails the request: when the
\* base64-decoded bytes of a record are not a gzip stream that inflates
\* (bytes that begin like gzip but are corrupt included), those bytes are
\* the working payload of the record and no error is reported for it.
\* ------------------------------------------------------------------------
C13_RecordGzipNeverFails ==
    \A h \in FirehoseHandlers :
       /\ \A k \in 1..Len(diag[h]) :
             diag[h][k] # "invalid http firehose record data reading gzip"
       /\ \A i \in 1..Len(lg[h].Records) :
             LET d == lg[h].Records[i].Data IN
             (/\ d.valid
              /\ d.bytes.form # "gzip"
              /\ idx[h] = i
              /\ pc[h] = "done") =>
                 resp[h][1].error \notin {"gzip", "base64"}

\* ------------------------------------------------------------------------
\* C14: a record whose working payload is a JSON object, whatever the types
\* of its fields, is treated as structured: the raw-message call is never
\* made for it, and once the handler is past it there is one call per entry
\* of its logEvents.
\* ------------------------------------------------------------------------
\* the number of entries of the logEvents of a JSON object
LogEventsCount(j) ==
    IF Field(j, "logEvents").t = "array" THEN Len(Field(j, "logEvents").items)
    ELSE 0

C14_AnyJSONObjectIsStructured ==
    \A h \in FirehoseHandlers :
       \A i \in 1..Len(lg[h].Records) :
          LET d == lg[h].Records[i].Data IN
          (Decodable(d) /\ PayloadOf(d).json.t = "object") =>
             /\ \A k \in 1..Len(CallsFor(h, i)) : CallsFor(h, i)[k].event > 0
             /\ Processed(h, i) =>
                   Len(CallsFor(h, i)) = LogEventsCount(PayloadOf(d).json)

\* ------------------------------------------------------------------------
\* C15: a record whose payload is a SubEnvelope with no logEvents makes no
\* sink call and no error: the request never ends at such a record, and a
\* batch of only such records, or of no records, ends with a 200 and no
\* sink call.
\* ------------------------------------------------------------------------
ZeroEventEntry(d) == IsSubEnvelope(d) /\ Len(EventsOf(d)) = 0

C15_EmptySubEnvelopeSkipped ==
    \A h \in FirehoseHandlers :
       /\ \A i \in 1..Len(lg[h].Records) :
             ZeroEventEntry(lg[h].Records[i].Data) =>
                /\ CallsFor(h, i) = <<>>
                /\ ~(pc[h] = "done" /\ idx[h] = i)
       /\ (/\ pc[h] = "done"
           /\ idx[h] >= 1
           /\ \A i \in 1..Len(lg[h].Records) :
                 ZeroEventEntry(lg[h].Records[i].Data)) =>
             /\ submitted[h] = <<>>
             /\ Len(resp[h]) = 1
             /\ resp[h][1].status = StatusOK

C15_Witness ==
    \E h \in FirehoseHandlers :
       /\ pc[h] = "done"
       /\ Len(lg[h].Records) = 2
       /\ \A i \in 1..2 : ZeroEventEntry(lg[h].Records[i].Data)
       /\ submitted[h] = <<>>
       /\ resp[h][1].status = StatusOK

\* a batch without records
C15_WitnessNoRecords ==
    \E h \in FirehoseHandlers :
       /\ pc[h] = "done"
       /\ idx[h] = 1
       /\ lg[h].Records = <<>>
       /\ resp[h][1].status = StatusOK

\* ------------------------------------------------------------------------
\* C16: the record the JSON drain submits has its service-name attribute
\* equal to the x-highlight-service header ("" when the header is absent),
\* whatever the body gave for that key, at the top level or under
\* attributes.
\* ------------------------------------------------------------------------
C16_ServiceNameFromHeader ==
    \A h \in JSONHandlers :
       \A k \in 1..Len(submitted[h]) :
          /\ ServiceNameKey \in DOMAIN submitted[h][k].log.Attributes
          /\ submitted[h][k].log.Attributes[ServiceNameKey] = req[h].service

C16_Witness ==
    \E h \in JSONHandlers :
       /\ Len(submitted[h]) = 1
       /\ req[h].body.json.t = "object"
       /\ Field(req[h].body.json, ServiceNameKey) = JStr("from-body")
       /\ Field(req[h].body.json, "attributes") # JAbsent
       /\ req[h].service = "checkout"
       /\ submitted[h][1].log.Attributes[ServiceNameKey] = "checkout"

\* the header is absent
C16_WitnessAbsent ==
    \E h \in JSONHandlers :
       /\ Len(submitted[h]) = 1
       /\ req[h].body.json.t = "object"
       /\ Field(req[h].body.json, ServiceNameKey) = JStr("from-body")
       /\ req[h].service = ""
       /\ submitted[h][1].log.Attributes[ServiceNameKey] = ""

\* ------------------------------------------------------------------------
\* C17: the harvest of the JSON drain does not leave out the typed keys: a
\* string message, timestamp or level of the body is in the attributes of
\* the submitted record under its key, with the value the typed field has;
\* a key of the body whose value is a boolean, null, an array or an object
\* is not harvested into the attributes.
\* ------------------------------------------------------------------------
TypedKeys == {"message", "timestamp", "level"}
TypedField(l, k) ==
    CASE k = "message" -> l.Message
      [] k = "timestamp" -> l.Timestamp
      [] k = "level" -> l.Level

\* the keys the body gives under "attributes"
NestedKeys(j) ==
    IF Field(j, "attributes").t = "object"
    THEN DOMAIN Field(j, "attributes").fields
    ELSE {}

C17_TypedKeysAlsoHarvested ==
    \A h \in JSONHandlers :
       \A c \in 1..Len(submitted[h]) :
          LET j == req[h].body.json
              sent == submitted[h][c].log
          IN /\ \A k \in TypedKeys :
                   (j.t = "object" /\ Field(j, k).t = "string") =>
                      /\ k \in DOMAIN sent.Attributes
                      /\ sent.Attributes[k] = Field(j, k).s
                      /\ sent.Attributes[k] = TypedField(sent, k)
             /\ j.t = "object" =>
                   \A k \in DOMAIN j.fields \ (NestedKeys(j) \cup {ServiceNameKey}) :
                      j.fields[k].t \in {"bool", "null", "array", "object"} =>
                         k \notin DOMAIN sent.Attributes

C17_Witness ==
    \E h \in JSONHandlers :
       /\ Len(submitted[h]) = 1
       /\ req[h].body.json.t = "object"
       /\ Field(req[h].body.json, "message") = JStr("hello")
       /\ Field(req[h].body.json, "level") = JStr("warn")
       /\ Field(req[h].body.json, "timestamp").t = "string"
       /\ Field(req[h].body.json, "count") = JBool(TRUE)
       /\ Field(req[h].body.json, "attributes").t = "object"
       /\ submitted[h][1].log.Attributes["message"] = "hello"
       /\ "count" \notin DOMAIN submitted[h][1].log.Attributes

\* ------------------------------------------------------------------------
\* C18: with several requests handled at once and their steps interleaved
\* in any way, the sink calls of each request are a prefix of that request's
\* own batch output, each made with the tenant id that request's own header
\* resolves to, and the response of each request follows from its own input
\* and its own sink calls; a step of one request, a failure included, leaves
\* the calls, the response and every local of the other requests as they
\* were.
\* ------------------------------------------------------------------------
\* everything a handler holds of its request
Local(h) ==
    <<pc[h], req[h], body[h], lg[h], projectID[h], idx[h], msg[h],
      cloudwatchPayload[h], ev[h], jlg[h], resp[h], submitted[h], diag[h]>>

\* the records the body of a firehose request carries
OwnRecords(r) == UnmarshalEnvelope(Inflated(r.body)).val.Records

C18_OwnOrderAndTenant ==
    \A h \in InFlight :
       /\ \A k \in 1..Len(submitted[h]) :
             /\ TenantValid(req[h])
             /\ submitted[h][k].project = VerboseIDs[TenantOf(req[h])]
       /\ req[h].drain = "firehose" =>
             IsPrefix(CallOrder(h), BatchOutput(OwnRecords(req[h]), 1))
       /\ req[h].drain = "json" =>
             /\ Len(submitted[h]) <= 1
             /\ \A k \in 1..Len(submitted[h]) :
                   submitted[h][k].log.Message
                      = DecodeString(Field(req[h].body.json, "message")).val
       /\ pc[h] = "done" =>
             /\ Len(resp[h]) = 1
             /\ resp[h][1].status = StatusOK <=> ~StageFailed(h)

C18_StepIsLocal ==
    \A h, o \in Handlers :
       (h # o /\ Local(h)' # Local(h)) => Local(o)' = Local(o)

C18_RequestsIsolated == [](C18_OwnOrderAndTenant) /\ [][C18_StepIsLocal]_vars

C18_Witness ==
    \E h, o \in Handlers :
       /\ h # o
       /\ pc[h] = "done"
       /\ req[h].drain = "json"
       /\ resp[h][1].error = "sink"
       /\ submitted[h][1].project = 2
       /\ pc[o] = "done"
       /\ req[o].drain = "firehose"
       /\ resp[o][1].status = StatusOK
       /\ Len(submitted[o]) = 1 + MaxEvents
       /\ \A k \in 1..Len(submitted[o]) : submitted[o][k].project = 1

====
